---- MODULE Spec2Model ----
(***************************************************************************)
(* arkiv-katalog: the application state machine of src/lib.rs.             *)
(*                                                                         *)
(* State::update handles one Message at a time.  Messages come from the    *)
(* runtime: window-open tasks, the window close subscription, the keyboard *)
(* subscription, the widgets of the settings view and the directory scan   *)
(* streams started by open_dir.  Messages of different sources are         *)
(* delivered in any order; the AddItem messages of one scan are delivered  *)
(* in the order the stream produced them.                                  *)
(***************************************************************************)
EXTENDS Integers, Sequences, FiniteSets, TLC

\* ------------------------------------------------------------------ bounds
\* Window ids the runtime hands out (window::Id is a fresh id per open).
MaxWindows == 2
\* Windows opened on a directory, each with its own scan.
MaxScans == 1
\* Entries of a scanned directory, named by the position at which read_dir
\* yields them.
MaxFiles == 2
\* Window ids of the specification that hands update AddItem messages for any
\* view (SpecAny).
MaxWindowsA == 2
\* Window ids of the specification that exercises the settings handlers
\* (SpecSettings).
MaxWindowsC == 2
\* Window ids of the specification of the F2 toggle alone (SpecToggle): the
\* main window and two settings windows.
MaxWindowsT == 3
\* Graphemes of the longest text handed to shorten_text, and the largest
\* max_len (SpecText).
MaxTextLen == 6
MaxLen == 5
\* Length of the prefix of Theme::ALL the model keeps.
NumThemes == 3

VARIABLES
    windows,        \* State.windows: window id -> Window
    settings,       \* State.settings
    theme_scroll,   \* State.theme_scroll
    config,         \* the profile's config.toml on disk
    nextId,         \* next window::Id the runtime allocates
    osOpen,         \* ids of the windows the runtime has open
    msgs,           \* window messages in flight (tasks and subscriptions)
    scans,          \* directory scans started by open_dir, by window id
    last,           \* the message update handled last
    effect,         \* the Task update returned for it
    reported,       \* whether report_err ran while handling it
    exited,         \* iced::exit() has been issued
    opens,          \* window-open messages handled so far
    closes,         \* RemoveWindow messages handled whose id was registered
    everPositive,   \* the registry has held a window at some point
    abandoned,      \* ids whose RemoveWindow was handled while their scan existed
    delivered,      \* per registered Main window: path -> item of the last AddItem
    saved           \* settings written by the last successful save, if still on disk

vars == <<windows, settings, theme_scroll, config, nextId, osOpen, msgs, scans,
          last, effect, reported, exited, opens, closes, everPositive,
          abandoned, delivered, saved>>

\* The part of the state that State owns.
stateVars == <<windows, settings, theme_scroll>>
\* The runtime around it.
envVars == <<nextId, osOpen, msgs, scans>>
\* Bookkeeping of what has happened, read by the properties only.
ghostVars == <<opens, closes, everPositive, abandoned, delivered, saved>>

\* ------------------------------------------------------------ data model
WindowIds == 1..MaxWindows
Files == 1..MaxFiles
Dirs == {"dir"}

\* pane_grid::State::new returns the grid with its single first pane.
FirstPane == 0
Panes == {FirstPane, FirstPane + 1}

\* DirView (pane.rs): Empty, or Dir { items }.
DirViewEmpty == [tag |-> "Empty", items |-> << >>]
DirViewDir(items) == [tag |-> "Dir", items |-> items]

\* Window (window_state.rs): Main { panes } or Settings.
WindowMain == [kind |-> "Main", panes |-> (FirstPane :> DirViewEmpty)]
WindowSettings == [kind |-> "Settings", panes |-> << >>]

ViewPath(window_id, pane) == [window_id |-> window_id, pane |-> pane]
ItemPath(view_path, path) == [view_path |-> view_path, path |-> path]

\* entry.path() of entry `file` of directory `dir`.
EntryPath(dir, file) == <<dir, file>>
\* format!("{prefix}{name}") for entry.file_name().
EntryName(prefix, file) == <<prefix, file>>
Item(name) == [name |-> name, cover |-> "None"]

\* Paths and items of the AddItem messages handed to update outside a scan: two
\* paths and two items for one name tell insert, overwrite and keep apart.
AnyPaths == {EntryPath(d, f) : d \in Dirs, f \in {1, 2}}
AnyItems == {Item(EntryName(prefix, 1)) : prefix \in {"", "sub/"}}

TaskNone == [kind |-> "none", ids |-> {}]
TaskExit == [kind |-> "exit", ids |-> {}]
TaskScan(id) == [kind |-> "scan", ids |-> {id}]
TaskOpenSettings(id) == [kind |-> "open_settings", ids |-> {id}]
TaskClose(ids) == [kind |-> "close", ids |-> ids]

WinMsg(type, id, dir) == [type |-> type, id |-> id, dir |-> dir]

\* ---------------------------------------------------------- map helpers
\* BTreeMap::insert: the value at `k` becomes `v`, every other key keeps its value.
map_insert(m, k, v) == [x \in (DOMAIN m) \cup {k} |-> IF x = k THEN v ELSE m[x]]
\* BTreeMap::remove: `k` is dropped, a missing key is no error.
map_remove(m, k) == [x \in (DOMAIN m) \ {k} |-> m[x]]

\* ------------------------------------------------------------- settings
\* Theme::ALL, by position; the model keeps its first NumThemes entries.
ThemeAll == <<"Light", "Dark", "Dracula", "Nord", "Solarized Light", "Solarized Dark">>
Themes == 1..NumThemes
\* ThemeArg::default: Theme::Dark.
DefaultTheme == CHOOSE t \in Themes : ThemeAll[t] = "Dark"
DefaultCardWidth == 150
DefaultMaxCardTextWidth == 12

\* Settings::default.
DefaultSettings ==
    [theme |-> DefaultTheme,
     card_width |-> DefaultCardWidth,
     max_card_text_width |-> DefaultMaxCardTextWidth]

\* A TOML document: each key is absent (the empty set) or holds one value.
EmptyDoc == [theme |-> {}, card_width |-> {}, max_card_text_width |-> {}]
\* The config file: absent, unreadable, not TOML ("garbage"), or a TOML document.
ConfigFile(kind, doc) == [kind |-> kind, doc |-> doc]
ConfigAbsent == ConfigFile("absent", EmptyDoc)

NoSettings == [some |-> FALSE, value |-> DefaultSettings]
SomeSettings(s) == [some |-> TRUE, value |-> s]

\* The largest u16, the type of card_width and max_card_text_width.
U16Max == 65535

\* theme.name().
ThemeName(t) == ThemeAll[t]

\* ASCII lower case of the theme strings the model writes to the file.
AsciiLower(str) ==
    CASE str \in {"Light", "light", "LIGHT"} -> "light"
      [] str \in {"Dark", "dark", "DARK"} -> "dark"
      [] str \in {"Dracula", "dracula"} -> "dracula"
      [] str \in {"Nord", "nord"} -> "nord"
      [] OTHER -> str

\* str::eq_ignore_ascii_case.
eq_ignore_ascii_case(a, b) == AsciiLower(a) = AsciiLower(b)

\* FromStr for ThemeArg: the first theme of Theme::ALL whose name equals the
\* string, ASCII case ignored; an error when there is none.
from_str(str) ==
    LET hits == {t \in Themes : eq_ignore_ascii_case(ThemeName(t), str)}
    IN  IF hits = {}
        THEN [ok |-> FALSE, theme |-> DefaultTheme]
        ELSE [ok |-> TRUE, theme |-> CHOOSE t \in hits : \A u \in hits : t <= u]

\* A serializer that writes the two widths under each other's key.
to_string_pretty_swapped(s) ==
    [theme |-> {ThemeName(s.theme)},
     card_width |-> {s.max_card_text_width},
     max_card_text_width |-> {s.card_width}]

\* toml::to_string_pretty(&self.settings): every field under its key, the
\* theme as its name (From<ThemeArg> for String).
to_string_pretty(s) ==
    [theme |-> {ThemeName(s.theme)},
     card_width |-> {s.card_width},
     max_card_text_width |-> {s.max_card_text_width}]

\* A u16 field without #[serde(default)]: a missing key is an error.
U16Field_required(values, default) ==
    IF values = {}
    THEN [ok |-> FALSE, value |-> default]
    ELSE LET n == CHOOSE v \in values : TRUE
         IN  [ok |-> n \in 0..U16Max, value |-> n]

\* Deserialize of one u16 field under #[serde(default)].
U16Field(values, default) ==
    IF values = {}
    THEN [ok |-> TRUE, value |-> default]
    ELSE LET n == CHOOSE v \in values : TRUE
         IN  [ok |-> n \in 0..U16Max, value |-> n]

\* Deserialize of the theme field: absent is the default, a string goes
\* through TryFrom<String>.
ThemeField(values) ==
    IF values = {}
    THEN [ok |-> TRUE, value |-> DefaultTheme]
    ELSE LET parsed == from_str(CHOOSE v \in values : TRUE)
         IN  [ok |-> parsed.ok, value |-> parsed.theme]

\* toml::from_str::<Settings> on a TOML document: absent keys take the value
\* of Settings::default(), a value that does not fit its field is an error.
toml_from_str(doc) ==
    LET theme == ThemeField(doc.theme)
        card_width == U16Field(doc.card_width, DefaultSettings.card_width)
        max_card_text_width ==
            U16Field(doc.max_card_text_width, DefaultSettings.max_card_text_width)
    IN  [ok |-> theme.ok /\ card_width.ok /\ max_card_text_width.ok,
         value |-> [theme |-> theme.value,
                    card_width |-> card_width.value,
                    max_card_text_width |-> max_card_text_width.value]]

\* Message::ReloadSettigns, the read: Ok(None) without a config file,
\* Ok(Some(settings)) when it reads and parses, Err otherwise.
read_settings(file) ==
    IF file.kind = "absent"
    THEN [err |-> FALSE, some |-> FALSE, value |-> DefaultSettings]
    ELSE IF file.kind # "toml"
    THEN [err |-> TRUE, some |-> FALSE, value |-> DefaultSettings]
    ELSE [err |-> ~toml_from_str(file.doc).ok, some |-> toml_from_str(file.doc).ok,
          value |-> toml_from_str(file.doc).value]

\* A reload that falls back to the defaults when the read fails.
reload_settings_default_on_err(current, file) ==
    IF read_settings(file).some THEN read_settings(file).value ELSE DefaultSettings

\* Message::ReloadSettigns, the match: the settings after the reload.
reload_settings(current, file) ==
    IF read_settings(file).err
    THEN current
    ELSE IF read_settings(file).some
    THEN read_settings(file).value
    ELSE DefaultSettings

\* A SetTheme that builds the settings anew around the theme.
set_theme_reset(current, theme_arg) == [DefaultSettings EXCEPT !.theme = theme_arg]
\* Message::SetTheme: self.settings.theme = theme_arg.
set_theme(current, theme_arg) == [current EXCEPT !.theme = theme_arg]

\* A theme that is not in Theme::ALL, such as a Theme::Custom.
CustomTheme == Len(ThemeAll) + 1
\* Theme::ALL, in its order.
ThemeList == [i \in Themes |-> i]
\* Iterator::rev.
Reverse(list) == [i \in 1..Len(list) |-> list[Len(list) + 1 - i]]

\* list.iter().cycle().skip_while(|theme| theme != t).nth(1).expect(..): the
\* element after the first `t` of the endless repetition of the list.  The
\* repetition of an empty list is empty and expect panics; without a `t` in
\* the list skip_while never finds its end and the call does not return.
cyclic_after(list, t) ==
    IF Len(list) = 0
    THEN [outcome |-> "panic", theme |-> t]
    ELSE IF \A i \in 1..Len(list) : list[i] # t
    THEN [outcome |-> "hang", theme |-> t]
    ELSE LET first == CHOOSE i \in 1..Len(list) :
                        /\ list[i] = t
                        /\ \A j \in 1..Len(list) : list[j] = t => i <= j
         IN  [outcome |-> "value", theme |-> list[(first % Len(list)) + 1]]

\* A next that stops at the end of the list.
next_cyclic_no_wrap(t) == IF t + 1 \in Themes THEN t + 1 ELSE t
\* ThemeArg::next_cyclic.
next_cyclic(t) == cyclic_after(ThemeList, t).theme

\* ThemeArg::prev_cyclic: the same walk over Theme::ALL reversed.
prev_cyclic(t) == cyclic_after(Reverse(ThemeList), t).theme

\* Pixels of scroll that make one step of the theme list.
StepSize == 50

\* discrete_scroll: the residual takes the delta in; the direction is that of
\* floor(total / step), the new residual is total mod step.
\* An accumulator that divides as the machine does, rounding towards zero.
discrete_scroll_truncating(delta, residual, step_size) ==
    LET total == residual + delta
        magnitude == IF total < 0 THEN 0 - total ELSE total
        sign == IF total < 0 THEN 0 - 1 ELSE 1
        steps == sign * (magnitude \div step_size)
    IN  [direction |-> IF steps > 0 THEN "Forwards"
                       ELSE IF steps < 0 THEN "Backwards"
                       ELSE "Stationary",
         residual |-> sign * (magnitude % step_size)]
discrete_scroll_step(delta, residual, step_size) ==
    LET total == residual + delta
        steps == total \div step_size
    IN  [direction |-> IF steps > 0 THEN "Forwards"
                       ELSE IF steps < 0 THEN "Backwards"
                       ELSE "Stationary",
         residual |-> total % step_size]

\* An accumulator that starts from nothing again after each step.
discrete_scroll_reset(delta, residual) ==
    [direction |-> discrete_scroll_step(delta, residual, StepSize).direction,
     residual |-> IF discrete_scroll_step(delta, residual, StepSize).direction = "Stationary"
                  THEN residual + delta
                  ELSE 0]
\* discrete_scroll::Vertical.discrete_scroll(delta, &mut self.theme_scroll).
discrete_scroll(delta, residual) == discrete_scroll_step(delta, residual, StepSize)

\* A ThemeScroll arm that moves two themes on for a step.
scroll_theme_twice(theme, direction) ==
    IF direction = "Forwards" THEN next_cyclic(next_cyclic(theme))
    ELSE IF direction = "Backwards" THEN prev_cyclic(prev_cyclic(theme))
    ELSE theme
\* A ThemeScroll arm that moves on whatever the accumulator reports.
scroll_theme_always(theme, direction) ==
    IF direction = "Backwards" THEN prev_cyclic(theme) ELSE next_cyclic(theme)
\* Message::ThemeScroll: the theme after a step in the given direction.
scroll_theme(theme, direction) ==
    IF direction = "Forwards" THEN next_cyclic(theme)
    ELSE IF direction = "Backwards" THEN prev_cyclic(theme)
    ELSE theme

\* What another program, or the user, leaves at the config path.
ExternalDocs ==
    {[theme |-> {"light"}, card_width |-> {200}, max_card_text_width |-> {}],
     [theme |-> {"Bogus"}, card_width |-> {200}, max_card_text_width |-> {}],
     [theme |-> {}, card_width |-> {}, max_card_text_width |-> {U16Max + 1}]}

ExternalConfigs ==
    {ConfigAbsent, ConfigFile("unreadable", EmptyDoc)}
        \cup {ConfigFile("toml", doc) : doc \in ExternalDocs}

\* The ways SaveSettings ends: written; place_config_file fails; the file
\* cannot be created; the write fails after the file was truncated, leaving
\* it empty or with a part of the text.
SaveOutcomes == {"ok", "place_failed", "create_failed", "write_failed_empty", "write_failed_partial"}

\* Message::SaveSettings: the config file after the save.
save_settings(current, file, outcome) ==
    CASE outcome = "ok" -> ConfigFile("toml", to_string_pretty(current))
      [] outcome = "write_failed_empty" -> ConfigFile("toml", EmptyDoc)
      [] outcome = "write_failed_partial" -> ConfigFile("garbage", EmptyDoc)
      [] OTHER -> file

\* A handler that ends the application when its file operation fails.
settings_task_exit(failed) == IF failed THEN TaskExit ELSE TaskNone
\* Message::SaveSettings / Message::ReloadSettigns: the Task returned, after
\* report_err when the file operation failed.
settings_task(failed) == TaskNone

\* Scroll deltas of the settings specification.
ScrollDeltas == {-25, 0, 25}

\* ------------------------------------------------------- State::update
\* Option<&mut DirView>: None, or a reference to the view of a pane of a window.
NoView == [some |-> FALSE, window_id |-> 0, pane |-> FirstPane]
SomeView(window_id, pane) == [some |-> TRUE, window_id |-> window_id, pane |-> pane]
Deref(ws, ref) == ws[ref.window_id].panes[ref.pane]

\* A lookup that hands out the first pane of the window when the pane asked
\* for is not in the grid.
get_dir_view_mut_first_pane(ws, view_path) ==
    IF view_path.window_id \notin DOMAIN ws
    THEN NoView
    ELSE IF ws[view_path.window_id].kind # "Main"
    THEN NoView
    ELSE IF view_path.pane \notin DOMAIN ws[view_path.window_id].panes
    THEN SomeView(view_path.window_id, FirstPane)
    ELSE SomeView(view_path.window_id, view_path.pane)

\* get_dir_view_mut: the DirView a ViewPath addresses, if it resolves.
get_dir_view_mut(ws, view_path) ==
    IF view_path.window_id \notin DOMAIN ws
    THEN NoView
    ELSE IF ws[view_path.window_id].kind # "Main"
    THEN NoView
    ELSE IF view_path.pane \notin DOMAIN ws[view_path.window_id].panes
    THEN NoView
    ELSE SomeView(view_path.window_id, view_path.pane)

\* What the lookup of a ViewPath ran into, for the record of the last message.
Lookup(ws, view_path) ==
    IF view_path.window_id \notin DOMAIN ws THEN "no_window"
    ELSE IF ws[view_path.window_id].kind # "Main" THEN "settings_window"
    ELSE IF view_path.pane \notin DOMAIN ws[view_path.window_id].panes THEN "no_pane"
    ELSE "view"

\* An insert that replaces the registry by the new window alone.
insert_main_only(ws, id) == (id :> WindowMain)
\* Message::AddDirWindow / AddEmptyWindow: a Main window with one Empty pane.
insert_main(ws, id) == map_insert(ws, id, WindowMain)
\* Message::AddSettingsWindow.
insert_settings(ws, id) == map_insert(ws, id, WindowSettings)
\* A RemoveWindow that leaves the registry as it is.
remove_window_keep(ws, id) == ws
\* Message::RemoveWindow: self.windows.remove(&id).
remove_window(ws, id) == map_remove(ws, id)
\* Message::RemoveWindow: exit when the registry is empty after the removal.
remove_task(ws) == IF DOMAIN ws = {} THEN TaskExit ELSE TaskNone

\* An F2 that collects every window, not only the Settings windows.
to_close_all(ws) == DOMAIN ws
\* Message::KeyEvent: the windows F2 closes, those registered as Settings.
to_close(ws) == {id \in DOMAIN ws : ws[id].kind = "Settings"}
\* Message::KeyEvent: the arm of the match that toggles the settings window.
is_toggle(event) ==
    /\ event.kind = "KeyReleased"
    /\ event.key = "F2"
    /\ event.modifiers = {}

\* An AddItem that always starts a new collection.
add_item_reset(view, path, item) == DirViewDir(path :> item)
\* An AddItem that keeps the item already stored at the path.
add_item_keep(view, path, item) ==
    IF view.tag = "Empty"
    THEN DirViewDir(path :> item)
    ELSE IF path \in DOMAIN view.items
    THEN view
    ELSE DirViewDir(map_insert(view.items, path, item))
\* Message::AddItem on a resolved view: Empty becomes Dir with the one pair,
\* Dir gets the pair inserted.
add_item(view, path, item) ==
    IF view.tag = "Empty"
    THEN DirViewDir(path :> item)
    ELSE DirViewDir(map_insert(view.items, path, item))

\* One keyboard event per arm of the match on the event: F2 released with no
\* modifier, F2 released with one held, another key released, and an event
\* that is no key release.
KeyEvent_(kind, key, modifiers) == [kind |-> kind, key |-> key, modifiers |-> modifiers]
KeyEvents ==
    {KeyEvent_("KeyReleased", "F2", {}),
     KeyEvent_("KeyReleased", "F2", {"SHIFT"}),
     KeyEvent_("KeyReleased", "Other", {}),
     KeyEvent_("KeyPressed", "F2", {})}

\* A scan that lists the directory although read_dir failed.
NewScan_unchecked(dir, view_path, opened, listing) ==
    [dir |-> dir, view_path |-> view_path, opened |-> opened,
     left |-> listing, read |-> << >>, handled |-> 0]

\* A scan started by open_dir for window `id`: whether read_dir succeeded, the
\* entries not read yet, the entries read successfully in the order they were
\* read, and how many of their AddItem messages update has handled.
NewScan(dir, view_path, opened, listing) ==
    [dir |-> dir, view_path |-> view_path, opened |-> opened,
     left |-> IF opened THEN listing ELSE {},
     read |-> << >>, handled |-> 0]

\* A stream that ends at the first entry it cannot read.
read_entry_stop(scan, file, ok) ==
    IF ok
    THEN [scan EXCEPT !.left = @ \ {file}, !.read = Append(@, file)]
    ELSE [scan EXCEPT !.left = {}]
\* State::open_dir, one entry of read_dir: filter_map drops an entry whose
\* read failed and goes on, then() turns an entry into its AddItem message.
read_entry(scan, file, ok) ==
    [scan EXCEPT !.left = @ \ {file},
                 !.read = IF ok THEN Append(@, file) ELSE @]

\* A stream that hands its messages over last read first.
next_entry_newest(scan) == scan.read[Len(scan.read) - scan.handled]
\* Task::stream: the entry of the next message the stream hands to update.
next_entry(scan) == scan.read[scan.handled + 1]

\* A stream that gives every entry the path of the first one.
ScanItemPath_first(scan, file) == ItemPath(scan.view_path, EntryPath(scan.dir, 1))
ScanItemPath(scan, file) == ItemPath(scan.view_path, EntryPath(scan.dir, file))
ScanItem(file) == Item(EntryName("", file))

\* The settings view is on screen: a Settings window, or a window the registry
\* does not know, which State::view draws as a settings window.
SettingsViewShown ==
    \E id \in osOpen :
        IF id \in DOMAIN windows THEN windows[id].kind = "Settings" ELSE TRUE

Init ==
    /\ windows = << >>
    /\ settings = DefaultSettings
    /\ theme_scroll = 0
    /\ config = ConfigAbsent
    /\ nextId = 1
    /\ osOpen = {}
    /\ msgs = {}
    /\ scans = << >>
    /\ last = [type |-> "Init"]
    /\ effect = TaskNone
    /\ reported = FALSE
    /\ exited = FALSE
    /\ opens = 0
    /\ closes = 0
    /\ everPositive = FALSE
    /\ abandoned = {}
    /\ delivered = << >>
    /\ saved = NoSettings

\* State::init / the runtime: window::open hands out a fresh id, opens the
\* window and delivers the id as AddEmptyWindow or AddDirWindow.
WindowOpen(cap, types) ==
    /\ ~exited
    /\ nextId <= cap
    /\ \E type \in types, dir \in Dirs :
         /\ type = "AddDirWindow" =>
              Cardinality({m \in msgs : m.type = "AddDirWindow"})
                + Cardinality(DOMAIN scans) < MaxScans
         /\ msgs' = msgs \cup {WinMsg(type, nextId, IF type = "AddDirWindow" THEN dir ELSE "")}
    /\ osOpen' = osOpen \cup {nextId}
    /\ nextId' = nextId + 1
    /\ UNCHANGED <<stateVars, config, scans, last, effect, reported, exited, ghostVars>>

\* The user closes a window: window::close_events delivers RemoveWindow.
CloseWindow ==
    /\ ~exited
    /\ \E id \in osOpen :
         /\ osOpen' = osOpen \ {id}
         /\ msgs' = msgs \cup {WinMsg("RemoveWindow", id, "")}
    /\ UNCHANGED <<stateVars, config, nextId, scans, last, effect, reported, exited, ghostVars>>

AddDirWindow ==
    /\ ~exited
    /\ \E m \in msgs :
         /\ m.type = "AddDirWindow"
         /\ msgs' = msgs \ {m}
         /\ windows' = insert_main(windows, m.id)
         /\ \E opened \in BOOLEAN, total \in 0..MaxFiles :
              scans' = map_insert(scans, m.id,
                         NewScan(m.dir, ViewPath(m.id, FirstPane), opened, 1..total))
         /\ effect' = TaskScan(m.id)
         /\ last' = [type |-> "AddDirWindow", id |-> m.id]
         /\ delivered' = map_insert(delivered, m.id, << >>)
    /\ reported' = FALSE
    /\ opens' = opens + 1
    /\ everPositive' = TRUE
    /\ UNCHANGED <<settings, theme_scroll, config, nextId, osOpen, exited, closes,
                   abandoned, saved>>

AddEmptyWindow ==
    /\ ~exited
    /\ \E m \in msgs :
         /\ m.type = "AddEmptyWindow"
         /\ msgs' = msgs \ {m}
         /\ windows' = insert_main(windows, m.id)
         /\ last' = [type |-> "AddEmptyWindow", id |-> m.id]
         /\ delivered' = map_insert(delivered, m.id, << >>)
    /\ effect' = TaskNone
    /\ reported' = FALSE
    /\ opens' = opens + 1
    /\ everPositive' = TRUE
    /\ UNCHANGED <<settings, theme_scroll, config, nextId, osOpen, scans, exited,
                   closes, abandoned, saved>>

AddSettingsWindow ==
    /\ ~exited
    /\ \E m \in msgs :
         /\ m.type = "AddSettingsWindow"
         /\ msgs' = msgs \ {m}
         /\ windows' = insert_settings(windows, m.id)
         /\ last' = [type |-> "AddSettingsWindow", id |-> m.id]
    /\ effect' = TaskNone
    /\ reported' = FALSE
    /\ opens' = opens + 1
    /\ everPositive' = TRUE
    /\ UNCHANGED <<settings, theme_scroll, config, nextId, osOpen, scans, exited,
                   closes, abandoned, delivered, saved>>

RemoveWindow ==
    /\ ~exited
    /\ \E m \in msgs :
         /\ m.type = "RemoveWindow"
         /\ msgs' = msgs \ {m}
         /\ windows' = remove_window(windows, m.id)
         /\ last' = [type |-> "RemoveWindow", id |-> m.id,
                     present |-> m.id \in DOMAIN windows]
         /\ closes' = IF m.id \in DOMAIN windows THEN closes + 1 ELSE closes
         /\ abandoned' = IF m.id \in DOMAIN scans THEN abandoned \cup {m.id} ELSE abandoned
         /\ delivered' = map_remove(delivered, m.id)
    /\ effect' = remove_task(windows')
    /\ exited' = (effect'.kind = "exit")
    /\ reported' = FALSE
    /\ UNCHANGED <<settings, theme_scroll, config, nextId, osOpen, scans, opens,
                   everPositive, saved>>

\* Message::KeyEvent.  The runtime carries the returned task out at once: an
\* open request allocates the id, opens the window and sends AddSettingsWindow;
\* a close request closes each window that is still open, and the close
\* subscription sends its RemoveWindow.
KeyEvent(event, cap) ==
    /\ ~exited
    /\ osOpen # {}
    /\ IF is_toggle(event)
       THEN IF to_close(windows) = {}
            THEN /\ nextId <= cap
                 /\ effect' = TaskOpenSettings(nextId)
                 /\ nextId' = nextId + 1
                 /\ osOpen' = osOpen \cup {nextId}
                 /\ msgs' = msgs \cup {WinMsg("AddSettingsWindow", nextId, "")}
            ELSE /\ effect' = TaskClose(to_close(windows))
                 /\ nextId' = nextId
                 /\ osOpen' = osOpen \ to_close(windows)
                 /\ msgs' = msgs \cup
                      {WinMsg("RemoveWindow", id, "") : id \in to_close(windows) \cap osOpen}
       ELSE /\ effect' = TaskNone
            /\ UNCHANGED <<nextId, osOpen, msgs>>
    /\ last' = [type |-> "KeyEvent", toggle |-> is_toggle(event)]
    /\ reported' = FALSE
    /\ UNCHANGED <<stateVars, config, scans, exited, ghostVars>>

KeyEventAny(cap) == \E event \in KeyEvents : KeyEvent(event, cap)

\* The scan's stream reads the next entry of the directory: an entry read
\* successfully becomes an AddItem message, a failed read is skipped.
ScanRead ==
    /\ ~exited
    /\ \E id \in DOMAIN scans :
         \E file \in scans[id].left, ok \in BOOLEAN :
            /\ \A other \in scans[id].left : file <= other
            /\ scans' = [scans EXCEPT ![id] = read_entry(@, file, ok)]
    /\ UNCHANGED <<stateVars, config, nextId, osOpen, msgs, last, effect, reported,
                   exited, ghostVars>>

\* Message::AddItem, as State::update handles it.
UpdateAddItem(item_path, item) ==
    /\ LET view == get_dir_view_mut(windows, item_path.view_path)
       IN  /\ IF ~view.some
              THEN UNCHANGED <<windows, delivered>>
              ELSE /\ windows' = [windows EXCEPT
                                    ![view.window_id].panes[view.pane] =
                                        add_item(Deref(windows, view), item_path.path, item)]
                   /\ delivered' = [delivered EXCEPT
                                      ![view.window_id] = map_insert(@, item_path.path, item)]
           /\ last' = [type |-> "AddItem",
                       found |-> Lookup(windows, item_path.view_path),
                       replaced |-> /\ view.some
                                    /\ item_path.path \in DOMAIN Deref(windows, view).items
                                    /\ Deref(windows, view).items[item_path.path] # item]
    /\ effect' = TaskNone
    /\ reported' = FALSE
    /\ UNCHANGED <<settings, theme_scroll, config, exited, opens, closes, everPositive,
                   abandoned, saved>>

\* Message::SetTheme.
SetTheme(theme_arg) ==
    /\ ~exited
    /\ SettingsViewShown
    /\ settings' = set_theme(settings, theme_arg)
    /\ last' = [type |-> "SetTheme"]
    /\ effect' = TaskNone
    /\ reported' = FALSE
    /\ UNCHANGED <<windows, theme_scroll, config, envVars, exited, ghostVars>>

SetThemeAny == \E theme_arg \in Themes : SetTheme(theme_arg)

\* Message::ThemeScroll, as State::update handles it.
UpdateThemeScroll(delta) ==
    /\ LET scrolled == discrete_scroll(delta, theme_scroll)
       IN  /\ theme_scroll' = scrolled.residual
           /\ settings' = [settings EXCEPT !.theme = scroll_theme(@, scrolled.direction)]
           /\ last' = [type |-> "ThemeScroll", direction |-> scrolled.direction,
                       steps |-> (theme_scroll + delta) \div StepSize]
    /\ effect' = TaskNone
    /\ reported' = FALSE
    /\ UNCHANGED <<windows, config, envVars, exited, ghostVars>>

\* Message::ThemeScroll, sent by the settings view.
ThemeScroll(delta) ==
    /\ ~exited
    /\ SettingsViewShown
    /\ UpdateThemeScroll(delta)

ThemeScrollAny(deltas) == \E delta \in deltas : ThemeScroll(delta)

\* Message::SaveSettings.  A save that succeeds leaves a readable TOML file at
\* the path the reload looks at first.
SaveSettings ==
    /\ ~exited
    /\ SettingsViewShown
    /\ \E outcome \in SaveOutcomes :
         /\ config' = save_settings(settings, config, outcome)
         /\ reported' = (outcome # "ok")
         /\ last' = [type |-> "SaveSettings"]
         /\ saved' = IF outcome = "ok" THEN SomeSettings(settings)
                     ELSE IF config' = config THEN saved
                     ELSE NoSettings
    /\ effect' = settings_task(reported')
    /\ UNCHANGED <<stateVars, envVars, exited, opens, closes, everPositive, abandoned,
                   delivered>>

\* Message::ReloadSettigns.
ReloadSettigns ==
    /\ ~exited
    /\ SettingsViewShown
    /\ settings' = reload_settings(settings, config)
    /\ reported' = read_settings(config).err
    /\ last' = [type |-> "ReloadSettigns"]
    /\ effect' = settings_task(reported')
    /\ UNCHANGED <<windows, theme_scroll, config, envVars, exited, ghostVars>>

\* The config file changes behind the application's back.
ExternalFile ==
    /\ ~exited
    /\ \E file \in ExternalConfigs :
         /\ file # config
         /\ config' = file
    /\ saved' = NoSettings
    /\ UNCHANGED <<stateVars, envVars, last, effect, reported, exited, opens, closes,
                   everPositive, abandoned, delivered>>

\* The next AddItem message of the scan of window `id` reaches update.
ScanAddItem(id) ==
    /\ ~exited
    /\ id \in DOMAIN scans
    /\ scans[id].handled < Len(scans[id].read)
    /\ LET file == next_entry(scans[id])
       IN  UpdateAddItem(ScanItemPath(scans[id], file), ScanItem(file))
    /\ scans' = [scans EXCEPT ![id].handled = @ + 1]
    /\ UNCHANGED <<nextId, osOpen, msgs>>

AddItem == \E id \in DOMAIN scans : ScanAddItem(id)

\* An AddItem message with any ViewPath, path and item reaches update.
AnyAddItem(item_path, item) ==
    /\ ~exited
    /\ UpdateAddItem(item_path, item)
    /\ UNCHANGED envVars

AddItemAny(cap) ==
    \E wid \in 1..cap, pane \in Panes, path \in AnyPaths, item \in AnyItems :
        AnyAddItem(ItemPath(ViewPath(wid, pane), path), item)

MainWindows == {"AddEmptyWindow", "AddDirWindow"}

\* The window and key events, with `cap` window ids to hand out.
WindowEvents(cap, types) ==
    \/ WindowOpen(cap, types)
    \/ CloseWindow
    \/ AddEmptyWindow
    \/ AddSettingsWindow
    \/ RemoveWindow
    \/ KeyEventAny(cap)

\* The events of the directory scans.
ScanEvents ==
    \/ AddDirWindow
    \/ ScanRead
    \/ AddItem

Next == WindowEvents(MaxWindows, MainWindows) \/ ScanEvents

Spec == Init /\ [][Next]_vars

\* ------------------------------------------------- the functions alone
\* The theme cycle and the scroll accumulator applied to the fields of State
\* they work on, from every theme, in Theme::ALL or not, and every residual.
Residuals == 0..(StepSize - 1)
PureDeltas == {-45, -10, -1, 0, 1, 30, 120}

InitPure ==
    /\ windows = << >>
    /\ \E theme \in Themes \cup {CustomTheme} :
         settings = [DefaultSettings EXCEPT !.theme = theme]
    /\ theme_scroll \in Residuals
    /\ config = ConfigAbsent
    /\ nextId = 1
    /\ osOpen = {}
    /\ msgs = {}
    /\ scans = << >>
    /\ last = [type |-> "Init"]
    /\ effect = TaskNone
    /\ reported = FALSE
    /\ exited = FALSE
    /\ opens = 0
    /\ closes = 0
    /\ everPositive = FALSE
    /\ abandoned = {}
    /\ delivered = << >>
    /\ saved = NoSettings

\* The call made last has returned.
Returned == last.type \in {"next_cyclic", "prev_cyclic"} => last.outcome = "value"

\* self.settings.theme = self.settings.theme.next_cyclic(); `run` counts the
\* calls in a row since the theme was `start`.
CycleNext ==
    /\ Returned
    /\ LET result == cyclic_after(ThemeList, settings.theme)
           going == /\ last.type = "next_cyclic"
                    /\ last.run < NumThemes
       IN  /\ settings' = IF result.outcome = "value"
                          THEN [settings EXCEPT !.theme = next_cyclic(@)]
                          ELSE settings
           /\ last' = [type |-> "next_cyclic", outcome |-> result.outcome,
                       start |-> IF going THEN last.start ELSE settings.theme,
                       run |-> IF going THEN last.run + 1 ELSE 1]
    /\ UNCHANGED <<windows, theme_scroll, config, envVars, effect, reported, exited,
                   ghostVars>>

\* self.settings.theme = self.settings.theme.prev_cyclic().
CyclePrev ==
    /\ Returned
    /\ LET result == cyclic_after(Reverse(ThemeList), settings.theme)
       IN  /\ settings' = IF result.outcome = "value"
                          THEN [settings EXCEPT !.theme = prev_cyclic(@)]
                          ELSE settings
           /\ last' = [type |-> "prev_cyclic", outcome |-> result.outcome,
                       start |-> settings.theme, run |-> 1]
    /\ UNCHANGED <<windows, theme_scroll, config, envVars, effect, reported, exited,
                   ghostVars>>

\* discrete_scroll(delta, &mut self.theme_scroll) alone.
DiscreteScroll(delta) ==
    /\ Returned
    /\ theme_scroll' = discrete_scroll(delta, theme_scroll).residual
    /\ last' = [type |-> "discrete_scroll", delta |-> delta, before |-> theme_scroll,
                direction |-> discrete_scroll(delta, theme_scroll).direction]
    /\ UNCHANGED <<windows, settings, config, envVars, effect, reported, exited,
                   ghostVars>>

DiscreteScrollAny == \E delta \in PureDeltas : DiscreteScroll(delta)

\* The ThemeScroll arm of update alone, on a theme of Theme::ALL.
ThemeScrollPure ==
    /\ Returned
    /\ settings.theme \in Themes
    /\ \E delta \in PureDeltas : UpdateThemeScroll(delta)

NextPure == CycleNext \/ CyclePrev \/ DiscreteScrollAny \/ ThemeScrollPure

SpecPure == InitPure /\ [][NextPure]_vars

\* update driven with AddItem messages for any view, next to the events above.
NextAny == WindowEvents(MaxWindowsA, {"AddEmptyWindow"}) \/ AddItemAny(MaxWindowsA)

SpecAny == Init /\ [][NextAny]_vars

\* The events of the settings view and of the config file.
SettingsEvents ==
    \/ SetThemeAny
    \/ ThemeScrollAny(ScrollDeltas)
    \/ SaveSettings
    \/ ReloadSettigns
    \/ ExternalFile

\* The application started without a directory: State::init opens the one
\* empty main window, every further window is a settings window of F2.
NextSettings ==
    \/ WindowOpen(1, {"AddEmptyWindow"})
    \/ CloseWindow
    \/ AddEmptyWindow
    \/ AddSettingsWindow
    \/ RemoveWindow
    \/ KeyEventAny(MaxWindowsC)
    \/ SettingsEvents

SpecSettings == Init /\ [][NextSettings]_vars

\* The application started with a directory: State::init opens the one main
\* window and its scan runs while settings windows come and go and the
\* settings are saved and reloaded.
NextFaults ==
    \/ WindowOpen(1, {"AddDirWindow"})
    \/ CloseWindow
    \/ AddSettingsWindow
    \/ RemoveWindow
    \/ KeyEventAny(MaxWindowsC)
    \/ ScanEvents
    \/ SaveSettings
    \/ ReloadSettigns

SpecFaults == Init /\ [][NextFaults]_vars

\* The application started without a directory and the user does nothing but
\* press and release keys and close windows: State::init opens the one main
\* window, every other window is a settings window of the F2 toggle.
NextToggle ==
    \/ WindowOpen(1, {"AddEmptyWindow"})
    \/ CloseWindow
    \/ AddEmptyWindow
    \/ AddSettingsWindow
    \/ RemoveWindow
    \/ KeyEventAny(MaxWindowsT)

SpecToggle == Init /\ [][NextToggle]_vars

\* ------------------------------------------------------------ shorten_text
\* A text is the sequence of its graphemes; a grapheme takes one byte or more.
Graphemes == {"a", "a-umlaut"}
Bytes(g) == IF g = "a" THEN 1 ELSE 2
Texts == UNION {[1..n -> Graphemes] : n \in 0..MaxTextLen}

RECURSIVE ByteLen(_)
ByteLen(text) == IF text = << >> THEN 0 ELSE Bytes(Head(text)) + ByteLen(Tail(text))

\* text.grapheme_indices(true): the byte offset of each grapheme, in order.
grapheme_indices(text) == [i \in 1..Len(text) |-> ByteLen(SubSeq(text, 1, i - 1))]

\* Iterator::nth(n): skips n elements and returns the next one, None when
\* the iterator ends before; `rest` is what the iterator still holds.
nth(iter, n) ==
    IF Len(iter) >= n + 1
    THEN [some |-> TRUE, value |-> iter[n + 1], rest |-> SubSeq(iter, n + 2, Len(iter))]
    ELSE [some |-> FALSE, value |-> 0, rest |-> << >>]

\* usize::saturating_sub.
saturating_sub(a, b) == IF a >= b THEN a - b ELSE 0

\* str::get(..end): the prefix of `end` bytes, None when `end` is past the
\* end of the text or inside a grapheme.
get_to(text, end) ==
    LET cuts == {k \in 0..Len(text) : ByteLen(SubSeq(text, 1, k)) = end}
    IN  IF cuts = {}
        THEN [some |-> FALSE, value |-> << >>]
        ELSE [some |-> TRUE, value |-> SubSeq(text, 1, CHOOSE k \in cuts : TRUE)]

Ellipsis == <<".", ".", ".">>

\* shorten_text: inner gives up (None) at each `?`, and then the text is
\* returned as it is.
shorten_text(text, max_len) ==
    LET first == nth(grapheme_indices(text), saturating_sub(max_len, 3))
        more == nth(first.rest, 3)
        prefix == get_to(text, first.value)
    IN  IF first.some /\ more.some /\ prefix.some
        THEN prefix.value \o Ellipsis
        ELSE text

\* DirView::view draws an item: shorten_text(name, max_text_len).
ShortenText ==
    /\ \E text \in Texts, max_len \in 0..MaxLen :
         last' = [type |-> "shorten_text", text |-> text, max_len |-> max_len,
                  result |-> shorten_text(text, max_len)]
    /\ UNCHANGED <<stateVars, config, envVars, effect, reported, exited, ghostVars>>

NextText == ShortenText

SpecText == Init /\ [][NextText]_vars

\* ----------------------------------------------------------- properties
RegisteredIds(kind) == {id \in DOMAIN windows : windows[id].kind = kind}

\* C1: the number of windows in the registry equals the number of window-open
\* messages handled minus the number of RemoveWindow messages handled whose
\* id was in the registry at that moment.
C1_RegistrySize == Cardinality(DOMAIN windows) = opens - closes

\* A RemoveWindow for an id the registry did not hold has just been handled,
\* next to a window that was opened and has stayed.
C1_Witness ==
    /\ last.type = "RemoveWindow"
    /\ ~last.present
    /\ opens >= 1
    /\ Cardinality(DOMAIN windows) >= 1

\* C2: update issues the exit effect exactly when the registry reaches zero
\* windows after having held one: a RemoveWindow handled while the registry
\* has never held a window issues no exit, nor does one that leaves a window.
C2_ExitIffEmptiedAfterPositive ==
    (effect.kind = "exit") <=>
        (last.type = "RemoveWindow" /\ DOMAIN windows = {} /\ everPositive)

\* C3: an AddItem whose ViewPath does not resolve to a pane of a Main window
\* changes neither the registry and its DirViews nor the settings, and update
\* returns no follow-up effect, reports nothing and does not exit.
C3_StaleAddItem ==
    [][\A wid \in 1..MaxWindowsA, pane \in Panes, path \in AnyPaths, item \in AnyItems :
          (/\ AnyAddItem(ItemPath(ViewPath(wid, pane), path), item)
           /\ ~(/\ wid \in DOMAIN windows
                /\ windows[wid].kind = "Main"
                /\ pane \in DOMAIN windows[wid].panes))
          => /\ UNCHANGED <<windows, settings, theme_scroll, config>>
             /\ effect' = TaskNone
             /\ ~reported'
             /\ ~exited']_vars

\* An AddItem for a pane a Main window does not have, and one for a Settings
\* window, have been handled.
C3_Witness ==
    /\ last.type = "AddItem"
    /\ last.found \in {"no_pane", "settings_window"}
    /\ RegisteredIds("Main") # {}
    /\ last.found = "settings_window" => RegisteredIds("Settings") # {}

\* C4: an AddItem for an existing pane stores the item at its path in that
\* pane's DirView alone: an Empty view becomes Dir holding only that pair, a
\* Dir view keeps the item of every other key; the other panes and windows,
\* the registry's keys and the settings are unchanged.
C4_AddItemFrame ==
    [][\A wid \in 1..MaxWindowsA, pane \in Panes, path \in AnyPaths, item \in AnyItems :
          (/\ AnyAddItem(ItemPath(ViewPath(wid, pane), path), item)
           /\ wid \in DOMAIN windows
           /\ windows[wid].kind = "Main"
           /\ pane \in DOMAIN windows[wid].panes)
          => LET old == windows[wid].panes[pane]
                 new == windows'[wid].panes[pane]
             IN  /\ DOMAIN windows' = DOMAIN windows
                 /\ \A other \in DOMAIN windows \ {wid} : windows'[other] = windows[other]
                 /\ windows'[wid].kind = "Main"
                 /\ DOMAIN windows'[wid].panes = DOMAIN windows[wid].panes
                 /\ \A p \in DOMAIN windows[wid].panes \ {pane} :
                        windows'[wid].panes[p] = windows[wid].panes[p]
                 /\ new.tag = "Dir"
                 /\ DOMAIN new.items = (DOMAIN old.items) \cup {path}
                 /\ new.items[path] = item
                 /\ old.tag = "Empty" => DOMAIN new.items = {path}
                 /\ \A k \in (DOMAIN old.items) \ {path} : new.items[k] = old.items[k]
                 /\ UNCHANGED <<settings, theme_scroll>>]_vars

\* An AddItem has just added a second path to a Dir view while another Main
\* window is registered.
C4_Witness ==
    /\ last.type = "AddItem"
    /\ last.found = "view"
    /\ Cardinality(RegisteredIds("Main")) >= 2
    /\ \E id \in RegisteredIds("Main") :
          Cardinality(DOMAIN windows[id].panes[FirstPane].items) >= 2

\* C5: the DirView of a registered view holds one entry per distinct path
\* delivered to it, each with the item of the last AddItem for that path; it is
\* Empty as long as none was delivered.
C5_LastItemPerPath ==
    \A id \in RegisteredIds("Main") :
        /\ id \in DOMAIN delivered
        /\ LET view == windows[id].panes[FirstPane]
           IN  IF DOMAIN delivered[id] = {}
               THEN view.tag = "Empty"
               ELSE /\ view.tag = "Dir"
                    /\ DOMAIN view.items = DOMAIN delivered[id]
                    /\ \A k \in DOMAIN view.items : view.items[k] = delivered[id][k]

\* An AddItem has just replaced the item stored at a path by another one.
C5_Witness == last.type = "AddItem" /\ last.replaced

\* C6: once the RemoveWindow of the window that owns a scan has been handled,
\* the AddItem messages of that scan change neither the registry and its
\* DirViews nor the settings, whatever else is handled in between.
C6_AbandonedScan ==
    [][\A id \in abandoned :
          ScanAddItem(id) => UNCHANGED <<windows, settings, theme_scroll, config>>]_vars

\* An AddItem of a scan whose window has been removed has been handled.
C6_Witness ==
    /\ last.type = "AddItem"
    /\ last.found = "no_window"
    /\ abandoned # {}
    /\ \E id \in abandoned : scans[id].handled >= 1

\* C7: F2 released with no modifier asks to close every Settings window of the
\* registry, no Main window and opens nothing, when there is a Settings
\* window, and asks for exactly one new settings window otherwise; any other
\* key event issues nothing; no key event changes the state.
C7_SettingsToggle ==
    [][\A event \in KeyEvents :
          KeyEvent(event, MaxWindows)
          => /\ UNCHANGED <<windows, settings, theme_scroll, config>>
             /\ IF event.kind = "KeyReleased" /\ event.key = "F2" /\ event.modifiers = {}
                THEN IF RegisteredIds("Settings") # {}
                     THEN effect' = TaskClose(RegisteredIds("Settings"))
                     ELSE /\ effect'.kind = "open_settings"
                          /\ Cardinality(effect'.ids) = 1
                          /\ effect'.ids \cap DOMAIN windows = {}
                ELSE /\ effect' = TaskNone
                     /\ UNCHANGED <<nextId, osOpen, msgs>>]_vars

\* F2 has just asked to close the Settings window while a Main window is
\* registered.
C7_Witness ==
    /\ last.type = "KeyEvent"
    /\ last.toggle
    /\ effect.kind = "close"
    /\ effect.ids = RegisteredIds("Settings")
    /\ effect.ids # {}
    /\ RegisteredIds("Main") # {}

\* C8: ReloadSettings has three outcomes.  With a config file that reads and
\* parses the settings become the parsed value; without a config file they
\* become the defaults (default theme, card_width 150, max_card_text_width
\* 12); with a file that cannot be read or does not parse the failure is
\* reported and the settings are what they were before the event.
C8_ReloadOutcomes ==
    [][ReloadSettigns =>
        /\ (config.kind = "toml" /\ toml_from_str(config.doc).ok)
             => (settings' = toml_from_str(config.doc).value /\ ~reported')
        /\ config.kind = "absent"
             => /\ settings' = [theme |-> DefaultTheme, card_width |-> 150,
                                max_card_text_width |-> 12]
                /\ ~reported'
        /\ (config.kind \in {"unreadable", "garbage"}
              \/ (config.kind = "toml" /\ ~toml_from_str(config.doc).ok))
             => (settings' = settings /\ reported')]_vars

\* A reload of a file that does not parse was reported and kept settings
\* that are not the defaults.
C8_Witness ==
    /\ last.type = "ReloadSettigns"
    /\ reported
    /\ config.kind = "toml"
    /\ settings.card_width # DefaultCardWidth
    /\ settings.theme # DefaultTheme

\* C9: settings round trip.  A reload that finds the file a successful
\* SaveSettings wrote, with no other write to it since and whatever SetTheme
\* and ThemeScroll events were handled in between, leaves the settings equal
\* to the value that was saved; a reload without a config file yields the
\* default settings and reports no error.
C9_RoundTrip ==
    [][ReloadSettigns =>
        /\ saved.some => (settings' = saved.value /\ ~reported')
        /\ config.kind = "absent" => (settings' = DefaultSettings /\ ~reported')]_vars

\* A reload brought back saved settings whose width and theme are not the
\* defaults.
C9_Witness ==
    /\ last.type = "ReloadSettigns"
    /\ saved.some
    /\ settings = saved.value
    /\ settings.card_width # DefaultCardWidth
    /\ settings.theme # DefaultTheme
    /\ ~reported

\* C10: persistence is explicit.  Of the application's events only
\* SaveSettings changes the persisted configuration; the settings change only
\* in SetTheme, ThemeScroll and ReloadSettings; SetTheme(id) sets the theme to
\* id and leaves card_width, max_card_text_width and the registry as they
\* were; SaveSettings leaves the settings as they were, whether the write
\* succeeds or fails.
C10_ExplicitPersistence ==
    [][/\ config' # config => (SaveSettings \/ ExternalFile)
       /\ settings' # settings
            => (SetThemeAny \/ ThemeScrollAny(ScrollDeltas) \/ ReloadSettigns)
       /\ \A theme_arg \in Themes :
            SetTheme(theme_arg) =>
                /\ settings'.theme = theme_arg
                /\ settings'.card_width = settings.card_width
                /\ settings'.max_card_text_width = settings.max_card_text_width
                /\ windows' = windows
       /\ SaveSettings => settings' = settings]_vars

\* SetTheme was handled on settings whose widths are not the defaults, with
\* windows registered and a config file that holds other settings.
C10_Witness ==
    /\ last.type = "SetTheme"
    /\ settings.card_width # DefaultCardWidth
    /\ settings.theme # DefaultTheme
    /\ windows # << >>
    /\ config.kind = "toml"
    /\ toml_from_str(config.doc).value # settings

C12_ScanEmission ==
    [][\A id \in DOMAIN scans :
          LET before == scans[id]
              after == scans'[id]
          IN  /\ id \in DOMAIN scans'
              /\ (after.left # before.left \/ after.read # before.read) =>
                    \E file \in before.left :
                       /\ \A other \in before.left : file <= other
                       /\ after.left = before.left \ {file}
                       /\ after.read \in {before.read, Append(before.read, file)}
              /\ before.left = {} => after.read = before.read
              /\ \A i, j \in 1..Len(after.read) : after.read[i] = after.read[j] => i = j
              /\ \A i \in 1..Len(after.read) : after.read[i] \notin after.left]_vars

\* A scan went on after a failed read: its first entry was skipped, its
\* second was emitted and handled, and the directory is exhausted.
C12_Witness ==
    \E id \in DOMAIN scans :
        /\ scans[id].opened
        /\ scans[id].read = <<2>>
        /\ scans[id].left = {}
        /\ scans[id].handled = 1

\* C13: a scan whose directory cannot be opened for listing emits no AddItem,
\* ends, and escalates nothing.  Such a scan has nothing to read and nothing
\* emitted from the step that starts it on; no step of it ever follows, so it
\* changes no state; the AddDirWindow that started it reports no error and
\* does not end the application.
C13_UnopenedScan ==
    [][\A id \in DOMAIN scans' :
          ~scans'[id].opened =>
             /\ scans'[id].left = {}
             /\ scans'[id].read = << >>
             /\ scans'[id].handled = 0
             /\ ~ScanAddItem(id)
             /\ id \in DOMAIN scans => scans'[id] = scans[id]
             /\ id \notin DOMAIN scans =>
                   /\ AddDirWindow
                   /\ effect' = TaskScan(id)
                   /\ ~reported'
                   /\ ~exited']_vars

\* The window of a scan that could not open its directory is registered with
\* an empty view, and the application went on to handle a key event.
C13_Witness ==
    \E id \in DOMAIN scans :
        /\ ~scans[id].opened
        /\ id \in DOMAIN windows
        /\ windows[id].panes[FirstPane] = DirViewEmpty
        /\ last.type = "KeyEvent"
        /\ ~exited

\* C14: the AddItem events of one scan are handled in the order in which the
\* entries were read, whatever other events are handled in between.  At every
\* moment the messages of a scan that update has handled are the first ones
\* of its read order, and while the scan's window is registered its view
\* holds exactly the paths of those entries.
C14_ScanOrder ==
    \A id \in DOMAIN scans :
        /\ scans[id].handled <= Len(scans[id].read)
        /\ id \in DOMAIN windows =>
              DOMAIN windows[id].panes[FirstPane].items =
                  {EntryPath(scans[id].dir, scans[id].read[i]) : i \in 1..scans[id].handled}

\* A key event was handled between the two AddItem events of a scan: the
\* view holds the entry read first and not yet the one read second.
C14_Witness ==
    \E id \in DOMAIN scans \cap DOMAIN windows :
        /\ scans[id].read = <<1, 2>>
        /\ scans[id].handled = 1
        /\ DOMAIN windows[id].panes[FirstPane].items = {EntryPath(scans[id].dir, 1)}
        /\ last.type = "KeyEvent"

\* C15: theme cycle, round trip and period.  For every theme of the theme
\* list prev(next(t)) = t and next(prev(t)) = t, next wraps from the last
\* theme to the first and prev from the first to the last, and next applied
\* as many times as the list has themes gives t again.
C15_ThemeCycle ==
    [][/\ (CycleNext /\ settings.theme \in Themes) =>
             /\ prev_cyclic(settings'.theme) = settings.theme
             /\ settings.theme = ThemeList[NumThemes] => settings'.theme = ThemeList[1]
             /\ settings'.theme \in Themes
             /\ last'.run = NumThemes => settings'.theme = last'.start
       /\ (CyclePrev /\ settings.theme \in Themes) =>
             /\ next_cyclic(settings'.theme) = settings.theme
             /\ settings.theme = ThemeList[1] => settings'.theme = ThemeList[NumThemes]
             /\ settings'.theme \in Themes]_vars

\* next was applied once for every theme of the list in a row and the theme
\* is the one the run started from, which is not the first of the list.
C15_Witness ==
    /\ last.type = "next_cyclic"
    /\ last.run = NumThemes
    /\ last.start = settings.theme
    /\ settings.theme # ThemeList[1]

\* C16: when the current theme is not in the theme list, next and prev fail
\* fast: the call ends in a failure after a bounded search; it neither
\* returns a theme nor searches forever.
C16_AbsentThemeFailsFast ==
    (last.type \in {"next_cyclic", "prev_cyclic"} /\ last.start \notin Themes)
        => last.outcome = "panic"

\* The direction the accumulator reports for a number of whole steps.
DirectionOf(steps) ==
    IF steps > 0 THEN "Forwards" ELSE IF steps < 0 THEN "Backwards" ELSE "Stationary"

\* residual + delta = steps * step_size + result.residual for a whole number
\* of steps, with 0 <= result.residual < step_size and the direction of steps.
StepLaw(delta, residual, step_size, result) ==
    /\ result.residual \in 0..(step_size - 1)
    /\ \E steps \in -(StepSize + 120)..(StepSize + 120) :
         /\ residual + delta = steps * step_size + result.residual
         /\ result.direction = DirectionOf(steps)

\* Step sizes other than that of the theme picker.
StepSizes == {1, 2, 7, StepSize}

AfterFirst(delta) ==
    /\ last.type = "discrete_scroll"
    /\ last.delta = delta
    /\ last.before = 0

C19_ZeroDelta ==
    [][/\ DiscreteScroll(0) =>
             (last'.direction = "Stationary" /\ theme_scroll' = theme_scroll)
       /\ UpdateThemeScroll(0) =>
             /\ last'.direction = "Stationary"
             /\ theme_scroll' = theme_scroll
             /\ settings' = settings]_vars

\* A call with delta 0 was made on a residual of 30 and left it at 30.
C19_Witness ==
    /\ last.type = "discrete_scroll"
    /\ last.delta = 0
    /\ last.before = theme_scroll
    /\ theme_scroll = 30
    /\ settings.theme \in Themes

\* Every value the document holds fits its field: the theme names a theme of
\* Theme::ALL, the widths are u16.
DocFits(doc) ==
    /\ \A str \in doc.theme : \E t \in Themes : AsciiLower(ThemeName(t)) = AsciiLower(str)
    /\ \A n \in doc.card_width \cup doc.max_card_text_width : n \in 0..U16Max

\* C20: a settings document that omits keys deserializes.  When the
\* application reloads from a TOML document whose present values fit, no error
\* is reported, each present key gives its field the document's value, each
\* absent key gives its field the default (default theme, 150, 12), and the
\* empty document gives the default Settings.
C20_PartialDocument ==
    [][(ReloadSettigns /\ config.kind = "toml" /\ DocFits(config.doc)) =>
          /\ ~reported'
          /\ IF config.doc.theme = {}
             THEN settings'.theme = DefaultTheme
             ELSE \A str \in config.doc.theme :
                      AsciiLower(ThemeName(settings'.theme)) = AsciiLower(str)
          /\ IF config.doc.card_width = {}
             THEN settings'.card_width = 150
             ELSE settings'.card_width \in config.doc.card_width
          /\ IF config.doc.max_card_text_width = {}
             THEN settings'.max_card_text_width = 12
             ELSE settings'.max_card_text_width \in config.doc.max_card_text_width
          /\ (config.doc = EmptyDoc => settings' = DefaultSettings)]_vars

\* A reload from a document without max_card_text_width succeeded: the theme
\* and card_width are the document's, max_card_text_width is the default.
C20_Witness ==
    /\ last.type = "ReloadSettigns"
    /\ ~reported
    /\ config.kind = "toml"
    /\ config.doc.max_card_text_width = {}
    /\ config.doc.card_width = {200}
    /\ settings.card_width = 200
    /\ ThemeName(settings.theme) = "Light"
    /\ settings.max_card_text_width = 12

\* The position after and before t in Theme::ALL, with wrap-around.
PositionAfter(t) == (t % NumThemes) + 1
PositionBefore(t) == ((t + NumThemes - 2) % NumThemes) + 1

\* C21: a ThemeScroll event moves the theme by at most one position.  With
\* steps the whole number of step boundaries residual + delta crosses: for
\* steps > 0 the theme becomes the next theme, for steps < 0 the previous
\* one, for steps = 0 the settings stay, however large steps is; card_width,
\* max_card_text_width, the registry and the config file stay in all cases.
C21_ThemeScrollStep ==
    [][\A delta \in PureDeltas :
          UpdateThemeScroll(delta) =>
             LET steps == (theme_scroll + delta) \div StepSize
             IN  /\ steps > 0 => settings'.theme = PositionAfter(settings.theme)
                 /\ steps < 0 => settings'.theme = PositionBefore(settings.theme)
                 /\ steps = 0 => settings' = settings
                 /\ settings'.card_width = settings.card_width
                 /\ settings'.max_card_text_width = settings.max_card_text_width
                 /\ windows' = windows
                 /\ config' = config]_vars

\* A ThemeScroll event whose delta crossed two step boundaries was handled.
C21_Witness ==
    /\ last.type = "ThemeScroll"
    /\ last.steps = 2
    /\ last.direction = "Forwards"
    /\ settings.theme \in Themes

\* The window-open message the step takes out of the queue.
Handled(type, id) ==
    /\ last'.type = type
    /\ last'.id = id
    /\ \E m \in msgs : m.type = type /\ m.id = id /\ msgs' = msgs \ {m}

\* The step leaves the entries of all windows but `id`, and the settings.
OthersKept(id) ==
    /\ DOMAIN windows' = DOMAIN windows \cup {id}
    /\ \A other \in DOMAIN windows \ {id} : windows'[other] = windows[other]
    /\ settings' = settings
    /\ theme_scroll' = theme_scroll

\* C22: window-open handling by kind.  AddDirWindow(id, path) registers id as
\* a Main window with one Empty pane and starts exactly one scan, of path,
\* addressed to that pane of id; AddEmptyWindow(id) registers the same window
\* and starts no scan; AddSettingsWindow(id) registers a Settings window and
\* starts no scan; each leaves the other windows and the settings alone.
C22_WindowOpenByKind ==
    [][\A id \in WindowIds :
          /\ (AddDirWindow /\ Handled("AddDirWindow", id)) =>
                /\ windows'[id].kind = "Main"
                /\ DOMAIN windows'[id].panes = {FirstPane}
                /\ windows'[id].panes[FirstPane].tag = "Empty"
                /\ effect'.kind = "scan" /\ effect'.ids = {id}
                /\ DOMAIN scans' = DOMAIN scans \cup {id}
                /\ \A other \in DOMAIN scans \ {id} : scans'[other] = scans[other]
                /\ scans'[id].view_path = [window_id |-> id, pane |-> FirstPane]
                /\ \E m \in msgs \ msgs' : scans'[id].dir = m.dir
                /\ scans'[id].handled = 0 /\ scans'[id].read = << >>
                /\ OthersKept(id)
          /\ (AddEmptyWindow /\ Handled("AddEmptyWindow", id)) =>
                /\ windows'[id].kind = "Main"
                /\ DOMAIN windows'[id].panes = {FirstPane}
                /\ windows'[id].panes[FirstPane].tag = "Empty"
                /\ effect'.kind = "none"
                /\ scans' = scans
                /\ OthersKept(id)
          /\ (AddSettingsWindow /\ Handled("AddSettingsWindow", id)) =>
                /\ windows'[id].kind = "Settings"
                /\ effect'.kind = "none"
                /\ scans' = scans
                /\ OthersKept(id)]_vars

\* AddDirWindow was handled for a second window: its scan has started and
\* the window registered before it is still there.
C22_Witness ==
    /\ last.type = "AddDirWindow"
    /\ effect = TaskScan(last.id)
    /\ last.id \in DOMAIN scans
    /\ \E other \in DOMAIN windows : other # last.id

\* Every event of the scan of window `id` has been handled: the stream has
\* read the whole directory and update has taken each of its AddItem messages.
ScanDone(id) ==
    /\ scans[id].left = {}
    /\ scans[id].handled = Len(scans[id].read)

\* The paths of the entries the scan of window `id` read successfully.
ReadPaths(id) == {<<scans[id].dir, scans[id].read[i]>> : i \in 1..Len(scans[id].read)}

C24_OneSettingsWindow == Cardinality(RegisteredIds("Settings")) <= 1

\* C25: shorten_text(text, max_len) returns at most max_len graphemes; a text
\* of at most max_len graphemes is returned unchanged, a longer one as a
\* prefix of it followed by "...".
C25_ShortenText ==
    last.type = "shorten_text" =>
        /\ Len(last.result) <= last.max_len
        /\ IF Len(last.text) <= last.max_len
           THEN last.result = last.text
           ELSE \E k \in 0..Len(last.text) :
                    last.result = SubSeq(last.text, 1, k) \o <<".", ".", ".">>

====
